---------------------------- MODULE Spec2Model ----------------------------
(***************************************************************************)
(* Model of extract_hdf5_to_pngs (src/helpers/hdf5.py, duplicated in       *)
(* src/basic.py): the per-frame HDF5 container is unpacked into PNG        *)
(* artifacts plus one JSON metadata sidecar.                               *)
(*                                                                         *)
(* Numbers.  A numeric element is a record [c, neg, m, e]: c is "fin",     *)
(* "nan", "pinf" or "ninf"; a finite element has the value                 *)
(* (-1)^neg * m * 2^e, where the magnitude m is a natural number of any    *)
(* size, kept as a little-endian sequence of 15-bit limbs, odd unless the  *)
(* value is zero.  Arithmetic on floats is IEEE 754 binary16, binary32 or  *)
(* binary64, each operation rounded to nearest, ties to even.              *)
(***************************************************************************)
EXTENDS Integers, Sequences, FiniteSets, TLC

\* Largest number of directory entries in the modelled input directory.
MaxFiles == 2
\* Number of float samples taken next to each probed decimal value.
Around == 1

(***************************************************************************)
(* Natural numbers of any size                                             *)
(***************************************************************************)
Radix == 2^15

RECURSIVE Pow2(_)
Pow2(n) == IF n = 0 THEN 1 ELSE 2 * Pow2(n - 1)

Max(a, b) == IF a >= b THEN a ELSE b

RECURSIVE IntBitLen(_)
IntBitLen(x) == IF x = 0 THEN 0 ELSE 1 + IntBitLen(x \div 2)

\* bits of one limb
LimbBits == IntBitLen(Radix - 1)

RECURSIVE BFromInt(_)
BFromInt(k) == IF k = 0 THEN <<>> ELSE <<k % Radix>> \o BFromInt(k \div Radix)

RECURSIVE BNorm(_)
BNorm(U) ==
    IF U = <<>> THEN <<>>
    ELSE IF U[Len(U)] = 0 THEN BNorm(SubSeq(U, 1, Len(U) - 1)) ELSE U

\* the low 30 bits as an integer
BLowInt(U) ==
    CASE Len(U) = 0 -> 0
      [] Len(U) = 1 -> U[1]
      [] OTHER -> U[1] + Radix * U[2]

\* the value as an integer, for values below 2^30
BToInt(U) == BLowInt(U)

RECURSIVE BMulSmall(_, _, _)
BMulSmall(U, k, carry) ==
    IF U = <<>> THEN BFromInt(carry)
    ELSE LET t == Head(U) * k + carry
         IN <<t % Radix>> \o BMulSmall(Tail(U), k, t \div Radix)

\* quotient and remainder of U by a divisor d <= Radix
RECURSIVE BDivRem(_, _)
BDivRem(U, d) ==
    IF U = <<>> THEN [q |-> <<>>, r |-> 0]
    ELSE LET hi == BDivRem(Tail(U), d)
             t == Radix * hi.r + Head(U)
         IN [q |-> <<t \div d>> \o hi.q, r |-> t % d]

RECURSIVE BAddC(_, _, _)
BAddC(U, V, carry) ==
    IF U = <<>> /\ V = <<>> THEN BFromInt(carry)
    ELSE LET a == IF U = <<>> THEN 0 ELSE Head(U)
             b == IF V = <<>> THEN 0 ELSE Head(V)
             t == a + b + carry
         IN <<t % Radix>> \o BAddC(IF U = <<>> THEN <<>> ELSE Tail(U),
                                   IF V = <<>> THEN <<>> ELSE Tail(V),
                                   t \div Radix)
BAdd(U, V) == BAddC(U, V, 0)

\* U - V for U >= V
RECURSIVE BSubB(_, _, _)
BSubB(U, V, borrow) ==
    IF U = <<>> THEN <<>>
    ELSE LET b == IF V = <<>> THEN 0 ELSE Head(V)
             t == Head(U) - b - borrow
         IN <<t % Radix>> \o BSubB(Tail(U), IF V = <<>> THEN <<>> ELSE Tail(V),
                                   IF t < 0 THEN 1 ELSE 0)
BSub(U, V) == BNorm(BSubB(U, V, 0))

\* -1, 0, 1 as U <, =, > V (both without leading zero limbs)
RECURSIVE BCmp(_, _)
BCmp(U, V) ==
    CASE Len(U) < Len(V) -> -1
      [] Len(U) > Len(V) -> 1
      [] U = <<>> -> 0
      [] OTHER ->
           LET c == BCmp(Tail(U), Tail(V))
           IN IF c # 0 THEN c
              ELSE IF Head(U) < Head(V) THEN -1
              ELSE IF Head(U) > Head(V) THEN 1 ELSE 0

BitLen(U) == IF U = <<>> THEN 0 ELSE LimbBits * (Len(U) - 1) + IntBitLen(U[Len(U)])

Zeros(n) == [i \in 1..n |-> 0]

\* U * 2^s
BShl(U, s) ==
    IF U = <<>> THEN <<>>
    ELSE Zeros(s \div LimbBits) \o BMulSmall(U, Pow2(s % LimbBits), 0)

\* floor(U / 2^s)
BShr(U, s) ==
    IF s \div LimbBits >= Len(U) THEN <<>>
    ELSE BNorm(BDivRem(SubSeq(U, s \div LimbBits + 1, Len(U)), Pow2(s % LimbBits)).q)

\* U mod 2^s is not zero
BLowNonZero(U, s) ==
    \/ \E i \in 1..Len(U) : i <= s \div LimbBits /\ U[i] # 0
    \/ /\ s \div LimbBits < Len(U)
       /\ U[s \div LimbBits + 1] % Pow2(s % LimbBits) # 0

\* bit i of U (bit 0 is the lowest)
BBit(U, i) ==
    IF i < 0 \/ i \div LimbBits >= Len(U) THEN 0
    ELSE (U[i \div LimbBits + 1] \div Pow2(i % LimbBits)) % 2

BOdd(U) == U # <<>> /\ Head(U) % 2 = 1

(***************************************************************************)
(* Floating-point values                                                   *)
(***************************************************************************)
NaN == [c |-> "nan", neg |-> FALSE, m |-> <<>>, e |-> 0]
PosInf == [c |-> "pinf", neg |-> FALSE, m |-> <<>>, e |-> 0]
NegInf == [c |-> "ninf", neg |-> TRUE, m |-> <<>>, e |-> 0]
Zero == [c |-> "fin", neg |-> FALSE, m |-> <<>>, e |-> 0]

\* (-1)^neg * M * 2^e with M reduced to an odd magnitude
RECURSIVE Canon(_, _, _)
Canon(neg, M, e) ==
    IF M = <<>> THEN Zero
    ELSE IF BOdd(M) THEN [c |-> "fin", neg |-> neg, m |-> M, e |-> e]
    ELSE Canon(neg, BShr(M, 1), e + 1)

\* the integer k
Whole(k) == IF k >= 0 THEN Canon(FALSE, BFromInt(k), 0) ELSE Canon(TRUE, BFromInt(-k), 0)

IsFin(v) == v.c = "fin"
IsZero(v) == v.c = "fin" /\ v.m = <<>>

\* IEEE 754 formats: p significant bits, 2^emin the smallest subnormal,
\* finite values are below 2^emax
Binary16 == [p |-> 11, emin |-> -24, emax |-> 16]
Binary32 == [p |-> 24, emin |-> -149, emax |-> 128]
Binary64 == [p |-> 53, emin |-> -1074, emax |-> 1024]

IntDtypes == {"int8", "int16", "int32", "int64", "uint8", "uint16", "uint32", "uint64"}
FloatDtypes == {"float16", "float32", "float64"}
IsIntDtype(dtype) == dtype \in IntDtypes
IsFloatDtype(dtype) == dtype \in FloatDtypes
\* dtypes whose arithmetic is integer arithmetic
IsIntegral(dtype) == IsIntDtype(dtype) \/ dtype = "bool"

\* the format in which numpy computes with an array of this dtype and a
\* Python float or int scalar: the array's own for a float array, binary64
\* when a Python float meets an integer array
Format(dtype) ==
    CASE dtype = "float16" -> Binary16
      [] dtype = "float32" -> Binary32
      [] OTHER -> Binary64

\* (-1)^neg * (M + d) * 2^e, 0 <= d < 1 and d > 0 iff sticky, rounded to fmt
Round(neg, M, e, sticky, fmt) ==
    LET s == Max(Max(BitLen(M) - fmt.p, fmt.emin - e), 0)
        q == BShr(M, s)
        up == /\ s > 0
              /\ BBit(M, s - 1) = 1
              /\ (sticky \/ BLowNonZero(M, s - 1) \/ BOdd(q))
        r == IF up THEN BAdd(q, <<1>>) ELSE q
    IN IF BitLen(r) + e + s > fmt.emax
       THEN (IF neg THEN NegInf ELSE PosInf)
       ELSE Canon(neg, r, e + s)

\* the float of format fmt nearest to the decimal num/den (num, den > 0)
Dec(num, den, fmt) ==
    LET t == fmt.p + 2 + IntBitLen(den)
        d == BDivRem(BShl(BFromInt(num), t), den)
    IN Round(FALSE, BNorm(d.q), -t, d.r # 0, fmt)

\* a float converted to the format fmt
Cast(v, fmt) == IF v.c # "fin" THEN v ELSE Round(v.neg, v.m, v.e, FALSE, fmt)

Neg(v) ==
    CASE v.c = "pinf" -> NegInf
      [] v.c = "ninf" -> PosInf
      [] v.c = "nan" -> NaN
      [] OTHER -> IF v.m = <<>> THEN v ELSE [v EXCEPT !.neg = ~v.neg]

\* v * k * 2^kexp for an integer 0 < k < Radix, rounded to fmt
FMul(v, k, kexp, fmt) ==
    IF v.c # "fin" THEN v
    ELSE Round(v.neg, BMulSmall(v.m, k, 0), v.e + kexp, FALSE, fmt)

\* magnitudes: -1, 0, 1 as |a| <, =, > |b| (finite a, b)
MagCmp(a, b) ==
    LET ta == BitLen(a.m) + a.e
        tb == BitLen(b.m) + b.e
    IN CASE a.m = <<>> /\ b.m = <<>> -> 0
         [] a.m = <<>> -> -1
         [] b.m = <<>> -> 1
         [] ta < tb -> -1
         [] ta > tb -> 1
         [] a.e >= b.e -> BCmp(BShl(a.m, a.e - b.e), b.m)
         [] OTHER -> BCmp(a.m, BShl(b.m, b.e - a.e))

\* a < b for values that are not NaN
FLess(a, b) ==
    CASE a.c = "pinf" \/ b.c = "ninf" -> FALSE
      [] a.c = "ninf" \/ b.c = "pinf" -> TRUE
      [] a.neg /\ ~b.neg -> TRUE
      [] ~a.neg /\ b.neg -> FALSE
      [] a.neg -> MagCmp(a, b) = 1
      [] OTHER -> MagCmp(a, b) = -1

\* Width of the window in which the operands of a sum are aligned
AddWindow == Binary64.p + 8

\* v + 1 rounded to fmt
FAddOne(v, fmt) ==
    CASE v.c # "fin" -> v
      [] v.m = <<>> -> Whole(1)
      [] v.e >= 0 ->
           IF BitLen(v.m) + v.e > AddWindow THEN v
           ELSE LET X == BShl(v.m, v.e)
                IN IF v.neg THEN Round(TRUE, BSub(X, <<1>>), 0, FALSE, fmt)
                   ELSE Round(FALSE, BAdd(X, <<1>>), 0, FALSE, fmt)
      [] -v.e <= AddWindow ->
           LET One == BShl(<<1>>, -v.e)
           IN IF ~v.neg THEN Round(FALSE, BAdd(One, v.m), v.e, FALSE, fmt)
              ELSE IF BCmp(v.m, One) = 1
              THEN Round(TRUE, BSub(v.m, One), v.e, FALSE, fmt)
              ELSE Round(FALSE, BSub(One, v.m), v.e, FALSE, fmt)
      [] OTHER ->
           LET d == -v.e - AddWindow
               m1 == BShr(v.m, d)
               sticky == BLowNonZero(v.m, d)
               One == BShl(<<1>>, AddWindow)
           IN IF ~v.neg THEN Round(FALSE, BAdd(One, m1), -AddWindow, sticky, fmt)
              ELSE Round(FALSE,
                         BSub(One, IF sticky THEN BAdd(m1, <<1>>) ELSE m1),
                         -AddWindow, sticky, fmt)

\* np.nan_to_num(data, nan=.., posinf=.., neginf=..), one element
nan_to_num(v, nan, posinf, neginf) ==
    CASE v.c = "nan" -> nan
      [] v.c = "pinf" -> posinf
      [] v.c = "ninf" -> neginf
      [] OTHER -> v

\* np.clip(data, lo, hi), one element: minimum(maximum(v, lo), hi)
clip(v, lo, hi) ==
    IF v.c = "nan" THEN v
    ELSE LET raised == IF FLess(v, lo) THEN lo ELSE v
         IN IF FLess(hi, raised) THEN hi ELSE raised

\* The integer part of a finite v, truncated towards zero, when its
\* magnitude is below 2^30; Huge otherwise
Huge == 2^30
TruncMag(v) ==
    IF v.e >= 0
    THEN IF BitLen(v.m) + v.e > 30 THEN Huge ELSE BToInt(BShl(v.m, v.e))
    ELSE IF BitLen(v.m) + v.e > 30 THEN Huge ELSE BToInt(BShr(v.m, -v.e))

\* the result of casting a float to an unsigned integer type is undefined
Undef == [c |-> "undef", neg |-> FALSE, m |-> <<>>, e |-> 0]

\* float -> uintN: truncation towards zero when the truncated value is
\* representable; otherwise (NaN, infinities, out of range) undefined
FloatToUInt(v, bits) ==
    IF v.c # "fin" THEN Undef
    ELSE LET t == TruncMag(v)
         IN IF t = 0 THEN Whole(0)
            ELSE IF v.neg \/ t >= Pow2(bits) THEN Undef
            ELSE Whole(t)

\* intM -> uintN for an integer value: modulo 2^bits
IntToUInt(v, bits) ==
    LET low == IF v.e >= bits THEN 0
               ELSE (BLowInt(v.m) % Pow2(bits - v.e)) * Pow2(v.e)
    IN IF v.neg THEN Whole((Pow2(bits) - low) % Pow2(bits)) ELSE Whole(low)

\* the float of format fmt that lies k units in the last place from a
\* normal float v of that format
Ulps(v, k, fmt) ==
    LET sh == fmt.p - BitLen(v.m)
        M == BShl(v.m, sh)
    IN IF k >= 0 THEN Round(v.neg, BAdd(M, BFromInt(k)), v.e - sh, FALSE, fmt)
       ELSE Round(v.neg, BSub(M, BFromInt(-k)), v.e - sh, FALSE, fmt)

\* the value of an integer element as an integer (magnitude below 2^30)
IntOf(v) == IF v.neg THEN -TruncMag(v) ELSE TruncMag(v)

\* an integer stored in an integer dtype: two's complement of its width
\* (the values of the model are below 2^30, 32 and 64 bits never wrap)
Wrap(k, dtype) ==
    CASE dtype = "uint8" -> k % 2^8
      [] dtype = "uint16" -> k % 2^16
      [] dtype = "int8" -> ((k + 2^7) % 2^8) - 2^7
      [] dtype = "int16" -> ((k + 2^15) % 2^16) - 2^15
      [] OTHER -> k

(***************************************************************************)
(* Values read from a container: data = f[key][()].                        *)
(*   ndarray  : [kind, shape, dtype, elems, tolistRaises], elems flat in   *)
(*              C order; an element of a bytes array is [c, text]          *)
(*   npscalar : [kind, dtype, val]   numpy scalar, shape (), has tolist    *)
(*   bytes    : [kind, utf8, text, len]                                    *)
(*   str      : [kind, text]         h5py < 3 string dataset               *)
(*   empty    : [kind, dtype]        h5py.Empty, shape None                *)
(*   group    : [kind]               the member is a group, not a dataset  *)
(* Values of the metadata dict are tagged records: JSON values, and the    *)
(* Python objects bytes and complex, which json cannot serialise.          *)
(***************************************************************************)
JStr(s) == [t |-> "str", s |-> s]
JNum(v, isInt) == [t |-> "num", x |-> v, int |-> isInt]
JBool(b) == [t |-> "bool", b |-> b]
JList(items) == [t |-> "list", items |-> items]
PyBytes(text) == [t |-> "bytes", s |-> text]
PyComplex(z) == [t |-> "complex", z |-> z]

RECURSIVE Product(_)
Product(shape) == IF shape = <<>> THEN 1 ELSE Head(shape) * Product(Tail(shape))

\* data.size
Size(data) == Product(data.shape)

\* len(data.shape): 0 for a numpy scalar; len(None) raises TypeError for Empty
Rank(data) == IF data.kind = "ndarray" THEN Len(data.shape) ELSE 0

\* len(data.shape) can be evaluated without raising
RankOk(data) == data.kind \in {"ndarray", "npscalar"}

\* the Python object tolist() makes of one element
Leaf(x, dtype) ==
    CASE dtype = "bool" -> JBool(~IsZero(x))
      [] dtype = "complex128" -> PyComplex(x)
      [] dtype = "S4" -> PyBytes(x.text)
      [] OTHER -> JNum(x, IsIntDtype(dtype))

\* ndarray.tolist(): nested plain lists, innermost Python objects
RECURSIVE Nest(_, _, _)
Nest(shape, elems, dtype) ==
    IF shape = <<>> THEN Leaf(elems[1], dtype)
    ELSE LET stride == Product(Tail(shape))
         IN JList([i \in 1..Head(shape) |->
                     Nest(Tail(shape),
                          SubSeq(elems, (i - 1) * stride + 1, i * stride),
                          dtype)])

tolist(data) == Nest(data.shape, data.elems, data.dtype)

\* str(tuple of ints): "()", "(3,)", "(2, 3)"
RECURSIVE CommaJoin(_)
CommaJoin(shape) ==
    IF Len(shape) = 1 THEN ToString(Head(shape))
    ELSE ToString(Head(shape)) \o ", " \o CommaJoin(Tail(shape))

ShapeRepr(shape) ==
    CASE Len(shape) = 0 -> "()"
      [] Len(shape) = 1 -> "(" \o ToString(shape[1]) \o ",)"
      [] OTHER -> "(" \o CommaJoin(shape) \o ")"

\* str(data.dtype): a fixed-length bytes dtype prints as |S4
DtypeRepr(dtype) == IF dtype = "S4" THEN "|S4" ELSE dtype

\* f"Array shape: {data.shape}, dtype: {data.dtype}"
Descriptor(data) ==
    JStr("Array shape: " \o ShapeRepr(data.shape) \o ", dtype: " \o DtypeRepr(data.dtype))

\* Threshold of the "small array" test: data.size < 100
SmallArrayLimit == 100

\* Mutant of GenericSerialize: the size test is <= instead of <
GenericSerializeInclusive(data) ==
    CASE data.kind = "ndarray" ->
           IF Size(data) <= SmallArrayLimit
           THEN IF data.tolistRaises THEN Descriptor(data) ELSE tolist(data)
           ELSE Descriptor(data)
      [] data.kind = "bytes" ->
           IF data.utf8 THEN JStr(data.text)
           ELSE JStr("Binary data (" \o ToString(data.len) \o " bytes)")
      [] data.kind = "npscalar" -> Leaf(data.val, data.dtype)
      [] data.kind = "str" -> JStr(data.text)
      [] OTHER -> JStr("Empty(dtype=dtype('" \o data.dtype \o "'))")

\* The else branch of the dispatcher (lines 70-96): metadata only
GenericSerialize(data) ==
    CASE data.kind = "ndarray" ->
           IF Size(data) < SmallArrayLimit
           THEN IF data.tolistRaises THEN Descriptor(data) ELSE tolist(data)
           ELSE Descriptor(data)
      [] data.kind = "bytes" ->
           IF data.utf8 THEN JStr(data.text)
           ELSE JStr("Binary data (" \o ToString(data.len) \o " bytes)")
      [] data.kind = "npscalar" -> Leaf(data.val, data.dtype)
      [] data.kind = "str" -> JStr(data.text)
      [] OTHER -> JStr("Empty(dtype=dtype('" \o data.dtype \o "'))")

(***************************************************************************)
(* json.dump(metadata, json_file, indent=2): the encoder writes the text   *)
(* piece by piece and raises TypeError at the first object it cannot       *)
(* serialise; what it wrote before stays in the file.                      *)
(***************************************************************************)
RECURSIVE Serializable(_)
Serializable(v) ==
    CASE v.t \in {"bytes", "complex"} -> FALSE
      [] v.t = "list" -> \A i \in 1..Len(v.items) : Serializable(v.items[i])
      [] OTHER -> TRUE

FirstBad(items) == CHOOSE i \in 1..Len(items) :
    /\ ~Serializable(items[i])
    /\ \A j \in 1..(i - 1) : Serializable(items[j])

\* the part of a value written before the encoder raised: nothing of an
\* object it cannot serialise, the opening and the leading items of a list
RECURSIVE Cut(_)
Cut(v) ==
    IF v.t = "list"
    THEN [t |-> "cutlist",
          items |-> SubSeq(v.items, 1, FirstBad(v.items) - 1),
          rest |-> Cut(v.items[FirstBad(v.items)])]
    ELSE [t |-> "nothing"]

Json(doc) == [t |-> "json", doc |-> doc]
Truncated(doc, key, part) == [t |-> "truncated", doc |-> doc, key |-> key, part |-> part]

DumpOk(md) == \A i \in 1..Len(md) : Serializable(md[i][2])

\* the content of the file json.dump leaves behind
Dump(md) ==
    IF DumpOk(md) THEN Json(md)
    ELSE LET vals == [i \in 1..Len(md) |-> md[i][2]]
             b == FirstBad(vals)
         IN Truncated(SubSeq(md, 1, b - 1), md[b][1], Cut(md[b][2]))

(***************************************************************************)
(* Typed encoders: the pixel values handed to Image.fromarray.             *)
(***************************************************************************)
\* v * k for an element of an integer array, without rounding (the product
\* wraps in the array's width, which the cast to uint8 does not see)
IntMul(v, k) == Canon(v.neg, BMulSmall(v.m, k, 0), v.e)

\* Mutant of ColorValue: the dtype test is lost, uint8 input is rescaled too
ColorValueAlwaysScaled(v, dtype) ==
    IF IsIntegral(dtype)
    THEN IntToUInt(IntMul(v, 255), 8)
    ELSE FloatToUInt(FMul(v, 255, 0, Format(dtype)), 8)

\* lines 41-42: one element of (data * 255).astype(np.uint8), or passthrough
ColorValue(v, dtype) ==
    IF dtype # "uint8"
    THEN IF IsIntegral(dtype)
         THEN IntToUInt(IntMul(v, 255), 8)
         ELSE FloatToUInt(FMul(v, 255, 0, Format(dtype)), 8)
    ELSE v

ColorEncode(data) == [i \in 1..Len(data.elems) |-> ColorValue(data.elems[i], data.dtype)]

\* the Python float 65.535 converted to the floating-point type the depth
\* array is processed in
ClipMax(dtype) == Cast(Dec(65535, 1000, Binary64), Format(dtype))

\* lines 51-55: nan_to_num (a copy for an integer array), clip, scale to
\* millimetres, cast to uint16
DepthValue(v, dtype) ==
    LET data_clean == IF IsIntegral(dtype) THEN v
                      ELSE nan_to_num(v, Zero, ClipMax(dtype), Zero)
        data_clipped == clip(data_clean, Zero, ClipMax(dtype))
    IN FloatToUInt(FMul(data_clipped, 1000, 0, Format(dtype)), 16)

DepthEncode(data) == [i \in 1..Len(data.elems) |-> DepthValue(data.elems[i], data.dtype)]

\* line 65: ((data + 1) * 127.5).astype(np.uint8); 127.5 = 255/2.  The sum
\* of an integer array stays in its dtype (bool becomes int64), the product
\* with 127.5 is a float64
NormalValue(v, dtype) ==
    IF IsIntegral(dtype)
    THEN FloatToUInt(FMul(Whole(Wrap(IntOf(v) + 1, dtype)), 255, -1, Binary64), 8)
    ELSE FloatToUInt(FMul(FAddOne(v, Format(dtype)), 255, -1, Format(dtype)), 8)

NormalEncode(data) == [i \in 1..Len(data.elems) |-> NormalValue(data.elems[i], data.dtype)]

\* Image.fromarray(uint8 array of rank 3) knows 2, 3 or 4 channels; any
\* other channel count raises TypeError
FromArrayOk(shape) == shape[3] \in {2, 3, 4}

\* the image mode Image.fromarray gives a uint8 array of rank 3
ModeOf(shape) ==
    CASE shape[3] = 2 -> "LA"
      [] shape[3] = 3 -> "RGB"
      [] shape[3] = 4 -> "RGBA"

Png(mode, shape, px) == [t |-> "png", mode |-> mode, shape |-> shape, px |-> px]

\* bits of one sample of an image of this mode
SampleBits(mode) == IF mode = "I;16" THEN 16 ELSE 8

\* The images a build can write for an encoded array: a sample whose cast is
\* undefined takes any value of the sample type
Resolutions(img) ==
    LET pos == {i \in 1..Len(img.px) : img.px[i] = Undef}
    IN {[img EXCEPT !.px = [i \in 1..Len(img.px) |->
                              IF i \in pos THEN Whole(f[i]) ELSE img.px[i]]] :
          f \in [pos -> 0..(2^SampleBits(img.mode) - 1)]}

\* file content b is one of the contents the encoded content a stands for
Resolves(a, b) ==
    IF a.t = "png" /\ b.t = "png"
    THEN /\ a.mode = b.mode
         /\ a.shape = b.shape
         /\ Len(a.px) = Len(b.px)
         /\ \A i \in 1..Len(a.px) :
               \/ a.px[i] = b.px[i]
               \/ a.px[i] = Undef /\ b.px[i].c = "fin"
    ELSE a = b

(***************************************************************************)
(* The metadata dict (insertion ordered): a sequence of <<key, value>>.    *)
(***************************************************************************)
Keys(md) == {md[i][1] : i \in 1..Len(md)}
HasKey(md, k) == k \in Keys(md)
Get(md, k) == md[CHOOSE i \in 1..Len(md) : md[i][1] = k][2]

\* metadata[k] = v: replaces the value of an existing key, else appends
DictSet(md, k, v) ==
    IF HasKey(md, k)
    THEN [i \in 1..Len(md) |-> IF md[i][1] = k THEN <<k, v>> ELSE md[i]]
    ELSE Append(md, <<k, v>>)

RgbName(frame) == "rgb_" \o frame \o ".png"
DepthName(frame) == "depth_" \o frame \o ".png"
NormalsName(frame) == "normals_" \o frame \o ".png"
MetadataName(frame) == "metadata_" \o frame \o ".json"

\* 0.001, a Python float
DepthScale == Dec(1, 1000, Binary64)

\* Result of one iteration of the loop over f.keys()
Step(exc, md, files) == [exc |-> exc, md |-> md, files |-> files]

\* The exception that len(data.shape) raises for a value without a shape
ShapeError(data) == IF data.kind = "empty" THEN "TypeError" ELSE "AttributeError"

\* lines 37-45.  data * 255 raises TypeError for an array of bytes, and
\* OverflowError for int8, where the Python integer 255 is out of bounds
DispatchColors(frame, md, key, data) ==
    IF ~RankOk(data) THEN Step(ShapeError(data), md, <<>>)
    ELSE IF Rank(data) # 3 THEN Step("", md, <<>>)
    ELSE IF data.dtype = "S4" THEN Step("TypeError", md, <<>>)
    ELSE IF data.dtype = "int8" THEN Step("OverflowError", md, <<>>)
    ELSE IF ~FromArrayOk(data.shape) THEN Step("TypeError", md, <<>>)
    ELSE Step("", DictSet(md, key, JStr(RgbName(frame))),
              << <<RgbName(frame),
                   Png(ModeOf(data.shape), data.shape, ColorEncode(data))>> >>)

\* lines 47-59
DispatchDepth(frame, md, key, data) ==
    IF ~RankOk(data) THEN Step(ShapeError(data), md, <<>>)
    ELSE IF Rank(data) # 2 THEN Step("", md, <<>>)
    ELSE IF data.dtype = "S4" THEN Step("TypeError", md, <<>>)
    ELSE Step("", DictSet(DictSet(md, key, JStr(DepthName(frame))),
                          key \o "_scale", JNum(DepthScale, FALSE)),
              << <<DepthName(frame), Png("I;16", data.shape, DepthEncode(data))>> >>)

\* lines 61-68
DispatchNormals(frame, md, key, data) ==
    IF ~RankOk(data) THEN Step(ShapeError(data), md, <<>>)
    ELSE IF Rank(data) # 3 THEN Step("", md, <<>>)
    ELSE IF data.dtype = "S4" THEN Step("TypeError", md, <<>>)
    ELSE IF ~FromArrayOk(data.shape) THEN Step("TypeError", md, <<>>)
    ELSE Step("", DictSet(md, key, JStr(NormalsName(frame))),
              << <<NormalsName(frame),
                   Png(ModeOf(data.shape), data.shape, NormalEncode(data))>> >>)

\* lines 70-96
DispatchOther(frame, md, key, data) ==
    Step("", DictSet(md, key, GenericSerialize(data)), <<>>)

\* lines 35-96: the body of "for key in f.keys()"; f[key][()] raises
\* TypeError when the member is a group
DispatchOne(frame, md, key, data) ==
    CASE data.kind = "group" -> Step("TypeError", md, <<>>)
      [] key = "colors" -> DispatchColors(frame, md, key, data)
      [] key = "depth" -> DispatchDepth(frame, md, key, data)
      [] key = "normals" -> DispatchNormals(frame, md, key, data)
      [] OTHER -> DispatchOther(frame, md, key, data)

\* line 25: glob "*.hdf5" on a base name given as its dot-separated parts;
\* the * of glob does not match the dot of a hidden file
IsHdf5(entry) ==
    /\ Len(entry.name) >= 2
    /\ entry.name[Len(entry.name)] = "hdf5"
    /\ entry.name[1] # ""

\* line 28: os.path.basename(hdf5_file).split('.')[0]
FrameIdx(entry) == entry.name[1]

(***************************************************************************)
(* Inputs: the input directory is a sequence of entries in discovery       *)
(* order, [name, readable, datasets]; name is the base name split at its   *)
(* dots, datasets the container's (key, data) pairs in the order f.keys()  *)
(* yields them.                                                            *)
(***************************************************************************)
Arr(shape, dtype, elems) ==
    [kind |-> "ndarray", shape |-> shape, dtype |-> dtype, elems |-> elems,
     tolistRaises |-> FALSE]
Unconvertible(shape, dtype, elems) ==
    [kind |-> "ndarray", shape |-> shape, dtype |-> dtype, elems |-> elems,
     tolistRaises |-> TRUE]
Scalar(dtype, v) == [kind |-> "npscalar", dtype |-> dtype, val |-> v]
Bytes(utf8, text, len) == [kind |-> "bytes", utf8 |-> utf8, text |-> text, len |-> len]
Str(text) == [kind |-> "str", text |-> text]
Empty(dtype) == [kind |-> "empty", dtype |-> dtype]
Group == [kind |-> "group"]
Fill(n, v) == [i \in 1..n |-> v]
DS(key, data) == [key |-> key, data |-> data]
Entry(name, readable, datasets) ==
    [name |-> name, readable |-> readable, datasets |-> datasets]
Container(datasets) == Entry(<<"p", "hdf5">>, TRUE, datasets)

Half == Canon(FALSE, <<1>>, -1)
One == Whole(1)
BytesElem(text) == [c |-> "bytes", text |-> text]
ComplexElem(re, im) == [c |-> "complex", re |-> re, im |-> im]

WideFloats == {"float32", "float64"}

\* the floats of a dtype next to the decimals d[1]/d[2] of a set
Near(decimals, dtype) ==
    {Ulps(Dec(d[1], d[2], Format(dtype)), k, Format(dtype)) :
        d \in decimals, k \in (-Around)..Around}

\* depths in metres: a millimetre, values whose product with 1000 is not
\* exact in binary, the clip bound 65.535
DepthDecimals ==
    {<<1, 1000>>, <<29, 1000>>, <<251, 1000>>, <<1001, 1000>>, <<3, 2>>,
     <<65534, 1000>>, <<65535, 1000>>}

DepthInputs(dtype) ==
    IF dtype \in WideFloats
    THEN Near(DepthDecimals, dtype)
         \cup {NaN, PosInf, NegInf, Zero, Whole(66), Whole(100), Whole(-1),
               Neg(Dec(2, 1000, Format(dtype))), Dec(1, 30000, Format(dtype))}
    ELSE IF dtype = "float16"
    THEN {NaN, NegInf, Zero, Dec(29, 1000, Binary16), Dec(3, 2, Binary16),
          Dec(655, 10, Binary16), Dec(65535, 1000, Binary16), Whole(-1)}
    ELSE IF dtype = "bool" THEN {Zero, One}
    ELSE IF dtype \in {"int8", "int16", "int32", "int64"}
    THEN {Zero, One, Whole(65), Whole(66), Whole(-3)}
    ELSE {Zero, One, Whole(65), Whole(66), Whole(200)}

\* colours: multiples of 1/255 and values between them
ColorDecimals ==
    {<<1, 255>>, <<2, 255>>, <<127, 255>>, <<128, 255>>, <<200, 255>>,
     <<254, 255>>, <<1, 1000>>, <<251, 1000>>, <<1, 3>>}

ColorInputs(dtype) ==
    IF dtype \in FloatDtypes
    THEN Near(ColorDecimals, dtype)
         \cup {Zero, Half, One, Ulps(One, -1, Format(dtype))}
    ELSE IF dtype = "bool" THEN {Zero, One}
    ELSE IF dtype \in {"int16", "int32", "int64"}
    THEN {Zero, One, Whole(2), Whole(300), Whole(-1)}
    ELSE {Zero, One, Whole(2), Whole(127), Whole(255)}

\* colours whose product with 255 has no uint8 value
ColorOutside ==
    {Dec(3, 2, Binary32), Neg(Dec(1, 4, Binary32)), Dec(256, 255, Binary32),
     NaN, PosInf}

NormalDecimals == {<<6, 10>>, <<1, 3>>, <<1, 255>>}

NormalInputs(dtype) ==
    IF dtype \in FloatDtypes
    THEN Near(NormalDecimals, dtype)
         \cup {Neg(v) : v \in Near(NormalDecimals, dtype)}
         \cup {Zero, One, Whole(-1), Half}
    ELSE IF dtype \in {"int16", "int32", "int64"}
    THEN {Zero, One, Whole(-1)}
    ELSE IF dtype = "uint8" THEN {Zero, One, Whole(255)}
    ELSE {Zero, One}

\* components outside [-1, 1]: the scaled value has no uint8 value
NormalOutside == {Whole(2), Neg(Dec(3, 2, Binary32)), NaN}

AuxShapes ==
    {<<0>>, <<1>>, <<2, 3>>, <<98>>, <<99>>, <<9, 11>>, <<3, 3, 11>>,
     <<100>>, <<10, 10>>, <<4, 5, 5>>, <<101>>}

\* values that are not an image of the rank a reserved name expects
Rank1 == Arr(<<3>>, "float32", <<Zero, Half, One>>)
Rank2 == Arr(<<1, 2>>, "float32", <<Half, One>>)
Rank3 == Arr(<<1, 1, 3>>, "float32", <<Zero, Half, One>>)
Rank4 == Arr(<<1, 1, 1, 3>>, "float32", <<Zero, Half, One>>)
Big1 == Arr(<<100>>, "float32", Fill(100, Half))
Names == Arr(<<2>>, "S4", <<BytesElem("ab"), BytesElem("cd")>>)
Gain == Scalar("complex128", ComplexElem(One, Whole(2)))
Oddities ==
    {Rank1, Rank4, Big1, Scalar("float64", Half), Scalar("int64", Whole(42)),
     Bytes(TRUE, "cam0", 4), Bytes(FALSE, "", 3), Str("cam0"), Empty("float32"),
     Names, Gain, Group}

Words2 == Arr(<<1, 2>>, "S4", <<BytesElem("ab"), BytesElem("cd")>>)
Words3 == Arr(<<1, 1, 2>>, "S4", <<BytesElem("ab"), BytesElem("cd")>>)

\* auxiliary values of integer, boolean and bytes element types
Counts ==
    {Arr(<<2>>, "int16", <<One, Whole(2)>>), Scalar("uint16", Whole(7)),
     Arr(<<2, 1>>, "uint8", <<Zero, Whole(255)>>), Scalar("int8", Whole(-5)),
     Arr(<<2>>, "bool", <<One, Zero>>), Scalar("bool", One),
     Arr(<<1, 2>>, "float64", <<NaN, Dec(1, 10, Binary64)>>),
     Words3}

ColorsF == Arr(<<1, 2, 3>>, "float32", Fill(6, Half))
ColorsU8 ==
    Arr(<<1, 2, 3>>, "uint8",
        <<Zero, One, Whole(127), Whole(128), Whole(254), Whole(255)>>)
ColorsLA == Arr(<<2, 1, 2>>, "float32", <<Zero, Half, One, Half>>)
ColorsRGBA == Arr(<<1, 1, 4>>, "uint8", <<Zero, One, Whole(2), Whole(255)>>)
ColorsI8 == Arr(<<1, 1, 3>>, "int8", <<Zero, One, Zero>>)
Colors1 == Arr(<<1, 2, 1>>, "float32", <<Zero, One>>)
Colors5 == Arr(<<1, 1, 5>>, "float32", Fill(5, Half))
DepthFar == Arr(<<1, 2>>, "float32", Fill(2, Whole(100)))
DepthMixed ==
    Arr(<<2, 2>>, "float32", <<NaN, PosInf, Dec(3, 2, Binary32), Whole(-1)>>)
DepthHalfInf == Arr(<<1, 1>>, "float16", <<PosInf>>)
NormalsUp == Arr(<<1, 1, 3>>, "float32", <<Zero, Whole(-1), One>>)
NormalsLA == Arr(<<1, 1, 2>>, "float64", <<Zero, One>>)

ImageDtypes == FloatDtypes \cup {"int16", "int32", "uint16", "bool"}

\* containers that exercise one dataset each
Probes ==
    {Container(<<DS("depth", Arr(<<1, 1>>, dt, <<v>>))>>) :
        <<dt, v>> \in UNION {{<<d, x>> : x \in DepthInputs(d)} :
                               d \in ImageDtypes \cup {"uint8"}}}
    \cup {Container(<<DS("colors", Arr(<<1, 1, 3>>, dt, <<v, v, v>>))>>) :
            <<dt, v>> \in UNION {{<<d, x>> : x \in ColorInputs(d)} :
                                   d \in ImageDtypes \cup {"uint8"}}}
    \cup {Container(<<DS("colors", Arr(<<1, 1, 3>>, "float32", <<Zero, v, One>>))>>) :
            v \in ColorOutside}
    \cup {Container(<<DS("normals", Arr(<<1, 1, 3>>, dt, <<v, v, v>>))>>) :
            <<dt, v>> \in UNION {{<<d, x>> : x \in NormalInputs(d)} :
                                   d \in ImageDtypes \cup {"uint8"}}}
    \cup {Container(<<DS("normals", Arr(<<1, 1, 3>>, "float32", <<Zero, v, One>>))>>) :
            v \in NormalOutside}
    \cup {Container(<<DS("colors", a)>>) :
            a \in {ColorsU8, ColorsLA, ColorsRGBA, ColorsI8, Colors1, Colors5, Words3}}
    \cup {Container(<<DS("depth", a)>>) : a \in {DepthHalfInf, DepthMixed, Words2}}
    \cup {Container(<<DS("normals", a)>>) : a \in {NormalsLA, Colors5, Words3}}
    \cup {Container(<<DS("extra", Arr(sh, "float32", Fill(Product(sh), Half)))>>) :
            sh \in AuxShapes}
    \cup {Container(<<DS("extra", Unconvertible(<<2, 3>>, "object", Fill(6, Half)))>>)}
    \cup {Container(<<DS(k, d)>>) : k \in {"colors", "depth", "normals"}, d \in Oddities}
    \cup {Container(<<DS(k, d)>>) :
            k \in {"extra"}, d \in Oddities \cup Counts \cup {Rank2, Rank3}}
    \cup {Container(<<DS("colors", Rank2)>>), Container(<<DS("depth", Rank3)>>),
          Container(<<DS("normals", Rank2)>>)}
    \cup {Container(<<DS("colors", ColorsF), DS("depth", DepthMixed),
                      DS("depth_scale", Scalar("float64", Whole(5))),
                      DS("normals", NormalsUp)>>),
          Container(<<DS("depth_scale", Scalar("float64", Whole(5))),
                      DS("depth", DepthMixed)>>),
          Container(<<DS("a99", Arr(<<99>>, "float32", Fill(99, Half))),
                      DS("b100", Arr(<<100>>, "float32", Fill(100, Half)))>>),
          Container(<<DS("aux", Scalar("float64", Half)), DS("gain", Gain),
                      DS("z", Scalar("int64", One))>>),
          Container(<<DS("a", Arr(<<2>>, "int16", <<One, Whole(2)>>)),
                      DS("grid", Arr(<<2, 1>>, "S4", <<BytesElem("x"), BytesElem("y")>>))>>),
          Container(<<DS("Colors", ColorsF), DS("depth", Rank3),
                      DS("normals", NormalsUp)>>)}

\* entries that are combined into directories of several files
Frame0001 ==
    Entry(<<"0001", "hdf5">>, TRUE, <<DS("colors", ColorsF), DS("depth", DepthFar)>>)
Frame0002 ==
    Entry(<<"0002", "hdf5">>, TRUE, <<DS("custom_count", Scalar("int64", Whole(42)))>>)
Corrupt0003 == Entry(<<"0003", "hdf5">>, FALSE, <<>>)
Frame0001v2 ==
    Entry(<<"0001", "v2", "hdf5">>, TRUE,
          <<DS("colors", ColorsU8), DS("normals", NormalsUp)>>)
Bad0004 ==
    Entry(<<"0004", "hdf5">>, TRUE,
          <<DS("aux", Rank1), DS("colors", Colors5), DS("depth", DepthFar)>>)
Gain0005 ==
    Entry(<<"0005", "hdf5">>, TRUE, <<DS("colors", ColorsF), DS("gain", Gain)>>)
Hidden == Entry(<<"", "hidden", "hdf5">>, TRUE, <<DS("colors", ColorsF)>>)
Notes == Entry(<<"notes", "txt">>, TRUE, <<>>)
Core == {Frame0001, Frame0002, Corrupt0003, Frame0001v2, Bad0004, Gain0005, Hidden, Notes}

RECURSIVE SeqsUpTo(_, _)
SeqsUpTo(S, n) ==
    IF n = 0 THEN {<<>>}
    ELSE LET shorter == SeqsUpTo(S, n - 1)
         IN shorter \cup {Append(q, e) : q \in shorter, e \in S}

Distinct(q) == \A i, j \in 1..Len(q) : i # j => q[i] # q[j]

\* the directory listings of the model
CoreListings == {q \in SeqsUpTo(Core, MaxFiles) : Distinct(q)}
Listings == CoreListings \cup {<<p>> : p \in Probes}

NoFiles == [name \in {} |-> 0]

\* files left in output_dir by an earlier run
Stale ==
    ("rgb_0002.png" :> Png("RGB", <<1, 1, 3>>, Fill(3, Whole(9))))
    @@ ("metadata_0009.json" :> Json(<<>>))
    @@ ("metadata_0001.json" :> Json(<< <<"colors", JStr("rgb_0001.png")>>,
                                        <<"old", JNum(One, TRUE)>> >>))

(***************************************************************************)
(* State                                                                   *)
(***************************************************************************)
VARIABLES
    dirExists,     \* hdf5_dir exists
    listing,       \* its entries, in the order glob discovers them
    outDirExists,  \* output_dir exists
    outDir0,       \* output_dir when the function is called: file name -> content
    outDir,        \* output_dir: file name -> content
    writes,        \* log of the files written: <<file name, index of the container>>
    pc,            \* position in extract_hdf5_to_pngs
    hdf5_files,    \* result of glob.glob
    idx,           \* index in hdf5_files of the current (last started) container
    frame_idx,
    fileOpen,      \* the h5py.File of the with statement is open
    keysLeft,      \* datasets of the current container still to iterate
    metadata,
    raised,        \* exception that left the function, "" if none
    reported       \* count printed by line 102, -1 before

vars == <<dirExists, listing, outDirExists, outDir0, outDir, writes, pc, hdf5_files,
          idx, frame_idx, fileOpen, keysLeft, metadata, raised, reported>>

Init ==
    /\ dirExists \in BOOLEAN
    /\ listing \in Listings
    /\ (~dirExists => listing = <<>>)
    /\ outDirExists \in BOOLEAN
    /\ outDir0 \in {NoFiles, Stale}
    /\ (~outDirExists => outDir0 = NoFiles)
    /\ (outDirExists => listing \in CoreListings)
    /\ outDir = outDir0
    /\ writes = <<>>
    /\ pc = "makedirs"
    /\ hdf5_files = <<>>
    /\ idx = 0
    /\ frame_idx = ""
    /\ fileOpen = FALSE
    /\ keysLeft = <<>>
    /\ metadata = <<>>
    /\ raised = ""
    /\ reported = -1

\* line 22: os.makedirs(output_dir, exist_ok=True)
MakeDirs ==
    /\ pc = "makedirs"
    /\ outDirExists' = TRUE
    /\ pc' = "glob"
    /\ UNCHANGED <<dirExists, listing, outDir0, outDir, writes, hdf5_files, idx,
                   frame_idx, fileOpen, keysLeft, metadata, raised, reported>>

\* line 25: glob.glob returns [] for a directory that does not exist
Glob ==
    /\ pc = "glob"
    /\ hdf5_files' = IF dirExists THEN SelectSeq(listing, IsHdf5) ELSE <<>>
    /\ pc' = "for"
    /\ UNCHANGED <<dirExists, listing, outDirExists, outDir0, outDir, writes, idx,
                   frame_idx, fileOpen, keysLeft, metadata, raised, reported>>

\* lines 27-31: next container; h5py.File opens it, metadata = {}
OpenContainer ==
    /\ pc = "for"
    /\ idx < Len(hdf5_files)
    /\ hdf5_files[idx + 1].readable
    /\ idx' = idx + 1
    /\ frame_idx' = FrameIdx(hdf5_files[idx + 1])
    /\ fileOpen' = TRUE
    /\ metadata' = <<>>
    /\ keysLeft' = hdf5_files[idx + 1].datasets
    /\ pc' = "keys"
    /\ UNCHANGED <<dirExists, listing, outDirExists, outDir0, outDir, writes,
                   hdf5_files, raised, reported>>

\* line 30: h5py.File raises OSError on an unreadable file; nothing catches it
OpenFails ==
    /\ pc = "for"
    /\ idx < Len(hdf5_files)
    /\ ~hdf5_files[idx + 1].readable
    /\ idx' = idx + 1
    /\ frame_idx' = FrameIdx(hdf5_files[idx + 1])
    /\ raised' = "OSError"
    /\ pc' = "raised"
    /\ UNCHANGED <<dirExists, listing, outDirExists, outDir0, outDir, writes,
                   hdf5_files, fileOpen, keysLeft, metadata, reported>>

ToMap(files) == [n \in {files[i][1] : i \in 1..Len(files)} |->
                   files[CHOOSE i \in 1..Len(files) : files[i][1] = n][2]]
Logged(files, i) == [j \in 1..Len(files) |-> <<files[j][1], i>>]

\* the files img.save can leave for the files of one step (at most one)
Saved(files) ==
    IF files = <<>> THEN {<<>>}
    ELSE {<< <<files[1][1], img>> >> : img \in Resolutions(files[1][2])}

\* lines 34-96: one dataset; an exception closes the file and leaves the function
Dispatch ==
    /\ pc = "keys"
    /\ keysLeft # <<>>
    /\ LET r == DispatchOne(frame_idx, metadata, Head(keysLeft).key, Head(keysLeft).data)
       IN IF r.exc = ""
          THEN /\ metadata' = r.md
               /\ \E saved \in Saved(r.files) : outDir' = ToMap(saved) @@ outDir
               /\ writes' = writes \o Logged(r.files, idx)
               /\ keysLeft' = Tail(keysLeft)
               /\ UNCHANGED <<pc, fileOpen, raised>>
          ELSE /\ raised' = r.exc
               /\ pc' = "raised"
               /\ fileOpen' = FALSE
               /\ UNCHANGED <<metadata, outDir, writes, keysLeft>>
    /\ UNCHANGED <<dirExists, listing, outDirExists, outDir0, hdf5_files, idx,
                   frame_idx, reported>>

\* Mutant of WriteMetadata: json.dump sits inside the loop over the keys, so
\* the sidecar is rewritten while datasets are still to be processed
WriteMetadataInLoop ==
    /\ pc = "keys"
    /\ outDir' = (MetadataName(frame_idx) :> Dump(metadata)) @@ outDir
    /\ writes' = Append(writes, <<MetadataName(frame_idx), idx>>)
    /\ IF ~DumpOk(metadata)
       THEN fileOpen' = FALSE /\ pc' = "raised" /\ raised' = "TypeError"
       ELSE IF keysLeft = <<>>
       THEN fileOpen' = FALSE /\ pc' = "for" /\ UNCHANGED raised
       ELSE UNCHANGED <<fileOpen, pc, raised>>
    /\ UNCHANGED <<dirExists, listing, outDirExists, outDir0, hdf5_files, idx,
                   frame_idx, keysLeft, metadata, reported>>

\* lines 98-100: open(..., 'w') and json.dump(metadata) after the loop; the
\* with blocks then close both files.  When json.dump raises TypeError the
\* file keeps what was written and the exception leaves the function
WriteMetadata ==
    /\ pc = "keys"
    /\ keysLeft = <<>>
    /\ outDir' = (MetadataName(frame_idx) :> Dump(metadata)) @@ outDir
    /\ writes' = Append(writes, <<MetadataName(frame_idx), idx>>)
    /\ fileOpen' = FALSE
    /\ IF DumpOk(metadata)
       THEN pc' = "for" /\ UNCHANGED raised
       ELSE pc' = "raised" /\ raised' = "TypeError"
    /\ UNCHANGED <<dirExists, listing, outDirExists, outDir0, hdf5_files, idx,
                   frame_idx, keysLeft, metadata, reported>>

\* line 102: print(f"Extracted {len(hdf5_files)} HDF5 files ...")
PrintSummary ==
    /\ pc = "for"
    /\ idx = Len(hdf5_files)
    /\ reported' = Len(hdf5_files)
    /\ pc' = "done"
    /\ UNCHANGED <<dirExists, listing, outDirExists, outDir0, outDir, writes,
                   hdf5_files, idx, frame_idx, fileOpen, keysLeft, metadata, raised>>

Next ==
    \/ MakeDirs
    \/ Glob
    \/ OpenContainer
    \/ OpenFails
    \/ Dispatch
    \/ WriteMetadata
    \/ PrintSummary

Spec == Init /\ [][Next]_vars

(***************************************************************************)
(* The loops as folds, for statements that compare whole runs.  An image   *)
(* sample whose cast is undefined stays Undef in a fold.                   *)
(***************************************************************************)
\* lines 34-96 for all datasets of one container, stopping at an exception
RECURSIVE RunKeys(_, _, _, _)
RunKeys(frame, md, files, datasets) ==
    IF datasets = <<>> THEN Step("", md, files)
    ELSE LET r == DispatchOne(frame, md, Head(datasets).key, Head(datasets).data)
         IN IF r.exc # "" THEN Step(r.exc, md, files)
            ELSE RunKeys(frame, r.md, files \o r.files, Tail(datasets))

\* lines 27-102 for a list of containers: the final output directory, the
\* exception that ended the run ("" if none) and the count printed (-1 if none)
RECURSIVE RunFiles(_, _, _)
RunFiles(files, dir, n) ==
    IF files = <<>> THEN [dir |-> dir, exc |-> "", reported |-> n]
    ELSE LET e == Head(files)
             r == RunKeys(FrameIdx(e), <<>>, <<>>, e.datasets)
             after == (MetadataName(FrameIdx(e)) :> Dump(r.md)) @@ ToMap(r.files) @@ dir
         IN IF ~e.readable THEN [dir |-> dir, exc |-> "OSError", reported |-> -1]
            ELSE IF r.exc # ""
            THEN [dir |-> ToMap(r.files) @@ dir, exc |-> r.exc, reported |-> -1]
            ELSE IF ~DumpOk(r.md)
            THEN [dir |-> after, exc |-> "TypeError", reported |-> -1]
            ELSE RunFiles(Tail(files), after, n)

\* extract_hdf5_to_pngs on an existing directory with the given listing and
\* the given content of output_dir
RunListing(q, dir) == RunFiles(SelectSeq(q, IsHdf5), dir, Len(SelectSeq(q, IsHdf5)))

\* directory b is one of the directories the folded directory a stands for
DirResolves(a, b) ==
    /\ DOMAIN a = DOMAIN b
    /\ \A n \in DOMAIN a : Resolves(a[n], b[n])

(***************************************************************************)
(* Vocabulary of the properties                                            *)
(***************************************************************************)
Terminal == pc \in {"done", "raised"}

\* container i of hdf5_files was processed to completion
Completed(i) == i < idx \/ (i = idx /\ pc \in {"for", "done"})

\* the container whose sidecar was written last, right after the write
JustWritten == pc = "for" /\ idx >= 1
Current == hdf5_files[idx]
CurrentDoc == outDir[MetadataName(frame_idx)].doc

\* the dataset the last Dispatch step handled
DoneCount == Len(Current.datasets) - Len(keysLeft)
JustDispatched == pc = "keys" /\ DoneCount >= 1
LastDone == Current.datasets[DoneCount]

DatasetNames(e) == {e.datasets[i].key : i \in 1..Len(e.datasets)}
Reserved == {"colors", "depth", "normals"}
ExpectedRank(key) == IF key = "depth" THEN 2 ELSE 3
IsArray(data) == data.kind = "ndarray"
ValidDepth(ds) == ds.key = "depth" /\ IsArray(ds.data) /\ Rank(ds.data) = 2
ArtifactName(key, frame) ==
    CASE key = "colors" -> RgbName(frame)
      [] key = "depth" -> DepthName(frame)
      [] OTHER -> NormalsName(frame)

CountWrites(name, i) == Cardinality({p \in 1..Len(writes) : writes[p] = <<name, i>>})

\* the container raises nowhere: it opens, every dataset is dispatched and
\* the metadata is written
Healthy(e) ==
    /\ e.readable
    /\ RunKeys(FrameIdx(e), <<>>, <<>>, e.datasets).exc = ""
    /\ DumpOk(RunKeys(FrameIdx(e), <<>>, <<>>, e.datasets).md)

FramesDistinct(q) == \A i, j \in 1..Len(q) : i # j => FrameIdx(q[i]) # FrameIdx(q[j])

\* floor(|v| * k) for a finite v and an integer k, in exact arithmetic
ExactFloor(v, k) == TruncMag([v EXCEPT !.m = BMulSmall(v.m, k, 0)])

\* 0 <= v <= 1
InUnit(v) == IsFin(v) /\ ~v.neg /\ ~FLess(One, v)

\* an image sample as an integer
Sample(x) == IntOf(x)

\* the stepwise run ends where the fold of the loops ends
FoldAgrees ==
    (Terminal /\ dirExists) =>
        LET r == RunListing(listing, outDir0)
        IN /\ DirResolves(r.dir, outDir)
           /\ r.exc = raised
           /\ r.reported = reported

(***************************************************************************)
(* Claims                                                                  *)
(***************************************************************************)

\* C1: the key set of the metadata document written for a container is
\* exactly the set of its dataset names, plus at most the injected key
\* depth_scale: every dataset name is a key, whichever path it took, and no
\* other key appears.
C1_KeySetIsDatasetNames ==
    JustWritten =>
        /\ DatasetNames(Current) \subseteq Keys(CurrentDoc)
        /\ Keys(CurrentDoc) \subseteq DatasetNames(Current) \cup {"depth_scale"}

\* C2: a dataset named colors, depth or normals whose array does not have
\* the expected rank goes to the generic serializer: the metadata document
\* holds for it what the generic serializer produces for that value, and no
\* image artifact is written for it.
C2_WrongRankFallsThrough ==
    JustWritten =>
        \A i \in 1..Len(Current.datasets) :
            LET ds == Current.datasets[i]
            IN (/\ ds.key \in Reserved
                /\ RankOk(ds.data)
                /\ Rank(ds.data) # ExpectedRank(ds.key))
               => /\ HasKey(CurrentDoc, ds.key)
                  /\ Get(CurrentDoc, ds.key) = GenericSerialize(ds.data)
                  /\ CountWrites(ArtifactName(ds.key, frame_idx), idx) = 0

\* C3: a failure confined to one container is isolated to that frame: when
\* the run has ended, every container that does not fail itself has been
\* processed and has its metadata document, wherever the failing one stood in
\* the processing order.
C3_FailureIsolated ==
    Terminal =>
        \A i \in 1..Len(hdf5_files) :
            Healthy(hdf5_files[i]) =>
                /\ CountWrites(MetadataName(FrameIdx(hdf5_files[i])), i) = 1
                /\ MetadataName(FrameIdx(hdf5_files[i])) \in DOMAIN outDir

\* C4: with a missing input directory the run fails with DirectoryNotFound
\* before any frame is processed, unlike a run on an existing empty directory,
\* which ends without error, writes nothing and reports a count of zero.
C4_MissingDirectoryFails ==
    Terminal =>
        /\ ~dirExists => (raised = "DirectoryNotFound" /\ reported = -1)
        /\ (dirExists /\ listing = <<>>) =>
              (raised = "" /\ reported = 0 /\ writes = <<>> /\ outDir = outDir0)

\* C5: the metadata document of every container that holds a valid depth
\* dataset (rank 2) maps depth_scale to exactly 0.001, whatever other datasets
\* the container holds and in whatever order they are iterated.
C5_DepthScaleExact ==
    JustWritten =>
        ((\E i \in 1..Len(Current.datasets) : ValidDepth(Current.datasets[i]))
            => /\ HasKey(CurrentDoc, "depth_scale")
               /\ Get(CurrentDoc, "depth_scale") = JNum(Dec(1, 1000, Binary64), FALSE))

\* What C6 says the depth encoder stores for one input value, in millimetres
DepthExpected(v) ==
    CASE v.c \in {"nan", "ninf"} -> 0
      [] v.c = "pinf" -> 65535
      [] v.neg -> 0
      [] ExactFloor(v, 1000) >= 65535 -> 65535
      [] OTHER -> ExactFloor(v, 1000)

\* C6: the depth image written for a rank-2 depth array holds, for every
\* input value, an integer in [0, 65535]: 0 for NaN, negative infinity and
\* negative values, 65535 for positive infinity and values >= 65.535, and the
\* truncation of v*1000 for v in [0, 65.535].
C6_DepthEncoding ==
    (JustDispatched /\ ValidDepth(LastDone)) =>
        LET img == outDir[DepthName(frame_idx)]
        IN /\ img.mode = "I;16"
           /\ Len(img.px) = Len(LastDone.data.elems)
           /\ \A i \in 1..Len(img.px) :
                 /\ img.px[i] = Whole(DepthExpected(LastDone.data.elems[i]))
                 /\ Sample(img.px[i]) >= 0
                 /\ Sample(img.px[i]) <= 65535

\* the artifact files a metadata document names
NamedArtifacts(doc) ==
    {Get(doc, k) : k \in Keys(doc) \cap Reserved}

\* C7: the sidecar of a container is written at most once, and only after
\* every dataset of the container has been dispatched and every artifact it
\* names has been written; it is not written while datasets are still being
\* processed, and for every container processed to completion it was written
\* exactly once, is present and holds the complete metadata.  A sidecar that
\* is cut short exists only after json.dump has raised and ended the run.
C7_SidecarOnceAtEnd ==
    \A i \in 1..Len(hdf5_files) :
        LET e == hdf5_files[i]
            name == MetadataName(FrameIdx(e))
            full == RunKeys(FrameIdx(e), <<>>, <<>>, e.datasets).md
        IN /\ CountWrites(name, i) <= 1
           /\ (i > idx \/ (i = idx /\ pc = "keys")) => CountWrites(name, i) = 0
           /\ \A p \in 1..Len(writes) :
                 writes[p] = <<name, i>> =>
                    /\ \A q \in 1..Len(writes) :
                          (writes[q][2] = i /\ q # p) => q < p
                    /\ \A a \in NamedArtifacts(full) :
                          \E q \in 1..(p - 1) : writes[q] = <<a.s, i>>
           /\ Completed(i) =>
                /\ CountWrites(name, i) = 1
                /\ name \in DOMAIN outDir
                /\ (\A j \in (i + 1)..idx : FrameIdx(hdf5_files[j]) # FrameIdx(e))
                      => outDir[name] = Json(full)
           /\ (name \in DOMAIN outDir /\ outDir[name].t = "truncated") =>
                 (pc = "raised" /\ raised = "TypeError" /\ keysLeft = <<>>)

C7_Witness ==
    /\ pc = "for"
    /\ idx = 2
    /\ CountWrites("metadata_0001.json", 1) = 1
    /\ CountWrites("rgb_0001.png", 1) = 1
    /\ CountWrites("metadata_0002.json", 2) = 1

\* C8: for containers with pairwise distinct frame identifiers, the final
\* output directory and the reported count are the same for every order in
\* which the containers are discovered and processed.
C8_OrderInsensitive ==
    (Terminal /\ dirExists /\ FramesDistinct(hdf5_files)) =>
        \A q \in Listings :
            ({q[i] : i \in 1..Len(q)} = {listing[i] : i \in 1..Len(listing)}
             /\ Len(q) = Len(listing))
            => /\ DirResolves(RunListing(q, outDir0).dir, outDir)
               /\ RunListing(q, outDir0).reported = reported

\* the leaves of a nested list, in order
RECURSIVE Flatten(_)
RECURSIVE FlattenAll(_, _)
Flatten(v) == IF v.t = "list" THEN FlattenAll(v.items, 1) ELSE <<v>>
FlattenAll(items, i) ==
    IF i > Len(items) THEN <<>> ELSE Flatten(items[i]) \o FlattenAll(items, i + 1)

\* C9: an auxiliary array is stored as a nested plain list exactly when it
\* has fewer than 100 elements and the conversion succeeds (99 is a list, 100
\* is not); otherwise it is stored as the descriptor string made of its shape
\* and element type, never as data.
C9_SmallArrayListElseDescriptor ==
    (JustDispatched /\ LastDone.key \notin Reserved /\ IsArray(LastDone.data)) =>
        LET d == LastDone.data
            v == Get(metadata, LastDone.key)
        IN /\ HasKey(metadata, LastDone.key)
           /\ v.t \in {"list", "str"}
           /\ v.t = "list" <=> (Product(d.shape) < 100 /\ ~d.tolistRaises)
           /\ v.t = "list" =>
                 /\ Len(v.items) = d.shape[1]
                 /\ Flatten(v) = [i \in 1..Len(d.elems) |-> Leaf(d.elems[i], d.dtype)]
           /\ v.t = "str" =>
                 v.s = "Array shape: " \o ShapeRepr(d.shape)
                          \o ", dtype: " \o DtypeRepr(d.dtype)

C9_Witness ==
    /\ JustWritten
    /\ HasKey(CurrentDoc, "a99")
    /\ Get(CurrentDoc, "a99").t = "list"
    /\ Len(Get(CurrentDoc, "a99").items) = 99
    /\ Get(CurrentDoc, "b100") = JStr("Array shape: (100,), dtype: float32")

\* a colour image was just written for a rank-3 colors array
ColorsDone ==
    /\ JustDispatched
    /\ LastDone.key = "colors"
    /\ IsArray(LastDone.data)
    /\ Rank(LastDone.data) = 3

\* C10 as stated: for a rank-3 colors array the colour image holds the input
\* values unchanged when the element type is uint8 and floor(value*255) for
\* every input value in [0,1] otherwise, and the metadata key colors maps to
\* rgb_<frame>.png.
C10_ColorEncodingExact ==
    ColorsDone =>
        LET d == LastDone.data
            img == outDir["rgb_" \o frame_idx \o ".png"]
        IN /\ Get(metadata, "colors") = JStr("rgb_" \o frame_idx \o ".png")
           /\ Len(img.px) = Len(d.elems)
           /\ \A i \in 1..Len(d.elems) :
                 IF d.dtype = "uint8" THEN img.px[i] = d.elems[i]
                 ELSE InUnit(d.elems[i]) =>
                         img.px[i] = Whole(ExactFloor(d.elems[i], 255))

\* the last step wrote the colour image of a rank-3 colors array
ColorsWritten ==
    /\ ColorsDone
    /\ writes # <<>>
    /\ writes[Len(writes)] = <<RgbName(frame_idx), idx>>

\* the last step raised while it handled a rank-3 colors array
ColorsRaised ==
    /\ pc = "raised"
    /\ keysLeft # <<>>
    /\ Head(keysLeft).key = "colors"
    /\ IsArray(Head(keysLeft).data)
    /\ Rank(Head(keysLeft).data) = 3

Channels(data) == data.shape[3]

\* half the distance, as a power of two, between the integer n >= 1 and the
\* float of precision fmt.p just below it
HalfUlpExp(n, fmt) ==
    IF n = Pow2(IntBitLen(n) - 1)
    THEN IntBitLen(n) - 2 - fmt.p
    ELSE IntBitLen(n) - 1 - fmt.p

\* n - v*k <= 2^HalfUlpExp(n, fmt), for a finite v >= 0 with v*k < n, in
\* exact arithmetic
WithinHalfUlpBelow(v, k, n, fmt) ==
    LET h == HalfUlpExp(n, fmt)
        lo == IF v.e < h THEN v.e ELSE h
        gap == BSub(BShl(BFromInt(n), -lo), BShl(BMulSmall(v.m, k, 0), v.e - lo))
    IN BCmp(gap, BShl(<<1>>, h - lo)) <= 0

\* C10 amended: whenever the color encoder writes the image of a rank-3
\* colors array (which it does only for 2, 3 or 4 channels; when the step
\* raises instead, with TypeError for a float or uint8 array of another
\* channel count, no image is written and no colors key is set), the image
\* holds the input values unchanged when the element type is uint8; for
\* every other element type and every input value in [0,1] it holds
\* floor(value*255), except that for a floating-point array it holds
\* floor(value*255)+1 exactly when value*255 lies within half a unit in the
\* last place of the array's type below that next integer (the product is
\* rounded to nearest before it is truncated), which happens for float16 and
\* float64 and never for float32; the metadata key colors maps to
\* rgb_<frame>.png.
C10_ColorEncodingRounded ==
    /\ ColorsDone => ColorsWritten /\ Channels(LastDone.data) \in {2, 3, 4}
    /\ ColorsRaised =>
          /\ ~HasKey(metadata, "colors")
          /\ CountWrites(RgbName(frame_idx), idx) = 0
          /\ ( /\ Channels(Head(keysLeft).data) \notin {2, 3, 4}
               /\ Head(keysLeft).data.dtype \in FloatDtypes \cup {"uint8"} )
             => raised = "TypeError"
    /\ ColorsWritten =>
        LET d == LastDone.data
            img == outDir[RgbName(frame_idx)]
        IN /\ Get(metadata, "colors") = JStr("rgb_" \o frame_idx \o ".png")
           /\ Len(img.px) = Len(d.elems)
           /\ \A i \in 1..Len(d.elems) :
                 LET floor == ExactFloor(d.elems[i], 255)
                 IN CASE d.dtype = "uint8" -> img.px[i] = d.elems[i]
                      [] ~InUnit(d.elems[i]) -> TRUE
                      [] d.dtype \in FloatDtypes ->
                           /\ Sample(img.px[i]) =
                                IF WithinHalfUlpBelow(d.elems[i], 255, floor + 1,
                                                      Format(d.dtype))
                                THEN floor + 1 ELSE floor
                           /\ d.dtype = "float32" => Sample(img.px[i]) = floor
                      [] OTHER -> Sample(img.px[i]) = floor

\* a written float colour image with a value in [0,1] whose rounded product
\* reaches the next integer
C10_Witness ==
    /\ ColorsWritten
    /\ Channels(LastDone.data) \in {2, 3, 4}
    /\ LastDone.data.dtype = "float64"
    /\ InUnit(LastDone.data.elems[1])
    /\ Sample(outDir[RgbName(frame_idx)].px[1]) = ExactFloor(LastDone.data.elems[1], 255) + 1
    /\ Get(metadata, "colors") = JStr(RgbName(frame_idx))
=============================================================================
